---- MODULE Spec2Model ----
(***************************************************************************)
(* Binary-outcome prediction markets of the prompt-wars repository.        *)
(*                                                                         *)
(* Four on-chain programs are modelled, each as its own state machine      *)
(* over the accounts of one market or one agent:                           *)
(*   Spec       frontend/prediction-market  (CPMM, SOL vault)              *)
(*   SpecPM     prediction_market           (CPMM, minted seed liquidity)  *)
(*   SpecPR     prediction                  (1:1 collateral-token market)  *)
(*   SpecStake  stake/agent_registry        (bonded agents, proof requests)*)
(* A transaction is atomic: a handler that returns an error leaves every   *)
(* account as it was, which is why each handler is one action.             *)
(***************************************************************************)
EXTENDS Integers, FiniteSets, Sequences, TLC

VARIABLES
    market,      \* the Market account of the two CPMM programs
    tmarket,     \* the Market account of the collateral-token program
    pool_vault,  \* lamports (or collateral tokens) held by the vault
    yes_supply,  \* total supply of the YES mint
    no_supply,   \* total supply of the NO mint
    pool_yes,    \* YES tokens held by pool_yes_account
    pool_no,     \* NO tokens held by pool_no_account
    now,         \* Clock::get()?.unix_timestamp
    trades,      \* number of successful buys, sells and claims so far
    last,        \* the most recent instruction and its result
    prev,        \* the successful trade right before `last`, if any
    accounts,    \* the market accounts of the program, by address
    lastAt,      \* the most recent initialize_market at a chosen address
    stake,       \* the accounts of the agent registry
    lastS        \* the most recent agent-registry instruction and its result

vars == <<market, tmarket, pool_vault, yes_supply, no_supply, pool_yes, pool_no,
          now, trades, last, prev, accounts, lastAt, stake, lastS>>

----------------------------------------------------------------------------
(* Bounds of the model.                                                    *)

\* Largest value of the machine word standing for u64 (scaled down so that
\* every product stays inside the model checker's integers).
U64_MAX == 2097151
\* The clock runs over 0..MaxNow.
MaxNow == 2
\* Successful trades and claims per market.
MaxTrades == 2
\* Market accounts created by one program.
MaxMarkets == 2

Keys == {"alice", "bob"}
Sides == {"Yes", "No"}
Amounts == {0, 1, 100}
Creators == {"alice"}
\* Arguments of initialize_market, <<closes_at, initial_liquidity, fee_bps>>:
\* every accepted combination, and arguments that violate one check or all.
Liquidities == {1, 2, 1000}
Fees == {0, 100, 10000}
\* The last one seeds reserves whose product does not fit the machine word.
InitArgs == ({1} \X Liquidities \X Fees)
            \cup {<<0, 1000, 100>>, <<1, 0, 100>>, <<1, 1000, 10001>>,
                  <<0, 0, 10001>>, <<1, 4000, 100>>}
\* The smallest initial_liquidity whose double does not fit the machine word.
HugeLiquidity == U64_MAX \div 2 + 1
\* prediction_market doubles initial_liquidity for the deposit.
PMInitArgs == InitArgs \cup {<<1, HugeLiquidity, 0>>}

----------------------------------------------------------------------------
(* Checked arithmetic over u64: None stands for Option::None.              *)

None == -1

checked_add(a, b) == IF a = None \/ b = None THEN None
                     ELSE IF a <= U64_MAX - b THEN a + b ELSE None

checked_sub(a, b) == IF a = None \/ b = None THEN None
                     ELSE IF a >= b THEN a - b ELSE None

checked_mul(a, b) == IF a = None \/ b = None THEN None
                     ELSE IF a = 0 \/ b <= U64_MAX \div a THEN a * b ELSE None

checked_div(a, b) == IF a = None \/ b = None THEN None
                     ELSE IF b = 0 THEN None ELSE a \div b

BPS_DENOMINATOR == 10000
MAX_FEE_BPS == 10000

----------------------------------------------------------------------------
(* Accounts.                                                               *)

NoMarket == [exists |-> FALSE, authority |-> "none", closes_at |-> 0,
             fee_bps |-> 0, reserve_yes |-> 0, reserve_no |-> 0,
             state |-> "Uninit", outcome |-> "None"]

NoTMarket == [exists |-> FALSE, authority |-> "none", end_time |-> 0,
              is_resolved |-> FALSE, winning_outcome |-> "None",
              total_yes_supply |-> 0, total_no_supply |-> 0]

\* The accounts one transaction can touch, read at its start.
World == [market |-> market, tmarket |-> tmarket, pool_vault |-> pool_vault,
          yes_supply |-> yes_supply, no_supply |-> no_supply,
          pool_yes |-> pool_yes, pool_no |-> pool_no]

NoWorld == [market |-> NoMarket, tmarket |-> NoTMarket, pool_vault |-> 0,
            yes_supply |-> 0, no_supply |-> 0, pool_yes |-> 0, pool_no |-> 0]

NoCall == [op |-> "none", signer |-> "none", side |-> "None", amount |-> 0,
           fee_bps |-> 0, closes_at |-> 0, now |-> 0,
           ok |-> FALSE, err |-> "none", ret |-> 0, pre |-> NoWorld]

NoTrade == [op |-> "none", side |-> "None", amount |-> 0, ret |-> 0]

\* Shares in the hands of traders: the supply less what the pool accounts hold.
Held(w, side) == IF side = "Yes" THEN w.yes_supply - w.pool_yes
                 ELSE w.no_supply - w.pool_no

\* A transaction that succeeds with return value v and leaves the accounts w,
\* and one that fails with error e: the accounts stay as they were.
Ok(v, w) == [ok |-> TRUE, err |-> "none", ret |-> v, w |-> w]
Err(e, w) == [ok |-> FALSE, err |-> e, ret |-> 0, w |-> w]

----------------------------------------------------------------------------
(* frontend/prediction-market: AMM math.                                   *)

\* Variant of fee_amount: half the fee is charged.
fee_amount_halved(amount, fee_bps) ==
    checked_div(checked_mul(amount, fee_bps), 2 * BPS_DENOMINATOR)

\* fee_amount = amount * fee_bps / 10000, None on overflow
fee_amount(amount, fee_bps) ==
    checked_div(checked_mul(amount, fee_bps), BPS_DENOMINATOR)

\* Variant of calculate_buy_shares: the fee is computed but the full amount
\* enters the curve.
calculate_buy_shares_fee_not_deducted(side, amount_in, reserve_yes, reserve_no, fee_bps) ==
    LET fee == fee_amount(amount_in, fee_bps)
        k == checked_mul(reserve_yes, reserve_no)
        add_old == IF side = "Yes" THEN reserve_no ELSE reserve_yes
        div_old == IF side = "Yes" THEN reserve_yes ELSE reserve_no
        add_new == checked_add(add_old, amount_in)
        div_new == checked_div(k, add_new)
        shares_out == checked_sub(div_old, div_new)
    IN  IF fee = None \/ k = None \/ add_new = None
           \/ div_new = None \/ shares_out = None
        THEN [ok |-> FALSE, err |-> "MathOverflow", out |-> 0,
              new_reserve_yes |-> reserve_yes, new_reserve_no |-> reserve_no]
        ELSE [ok |-> TRUE, err |-> "none", out |-> shares_out,
              new_reserve_yes |-> IF side = "Yes" THEN div_new ELSE add_new,
              new_reserve_no |-> IF side = "Yes" THEN add_new ELSE div_new]

\* Variant of calculate_buy_shares: k is multiplied without the overflow check.
calculate_buy_shares_k_unchecked(side, amount_in, reserve_yes, reserve_no, fee_bps) ==
    LET fee == fee_amount(amount_in, fee_bps)
        amount_after_fee == checked_sub(amount_in, fee)
        k == reserve_yes * reserve_no
        add_old == IF side = "Yes" THEN reserve_no ELSE reserve_yes
        div_old == IF side = "Yes" THEN reserve_yes ELSE reserve_no
        add_new == checked_add(add_old, amount_after_fee)
        div_new == checked_div(k, add_new)
        shares_out == checked_sub(div_old, div_new)
    IN  IF fee = None \/ amount_after_fee = None \/ k = None \/ add_new = None
           \/ div_new = None \/ shares_out = None
        THEN [ok |-> FALSE, err |-> "MathOverflow", out |-> 0,
              new_reserve_yes |-> reserve_yes, new_reserve_no |-> reserve_no]
        ELSE [ok |-> TRUE, err |-> "none", out |-> shares_out,
              new_reserve_yes |-> IF side = "Yes" THEN div_new ELSE add_new,
              new_reserve_no |-> IF side = "Yes" THEN add_new ELSE div_new]

calculate_buy_shares(side, amount_in, reserve_yes, reserve_no, fee_bps) ==
    LET fee == fee_amount(amount_in, fee_bps)
        amount_after_fee == checked_sub(amount_in, fee)
        k == checked_mul(reserve_yes, reserve_no)
        add_old == IF side = "Yes" THEN reserve_no ELSE reserve_yes
        div_old == IF side = "Yes" THEN reserve_yes ELSE reserve_no
        add_new == checked_add(add_old, amount_after_fee)
        div_new == checked_div(k, add_new)
        shares_out == checked_sub(div_old, div_new)
    IN  IF fee = None \/ amount_after_fee = None \/ k = None \/ add_new = None
           \/ div_new = None \/ shares_out = None
        THEN [ok |-> FALSE, err |-> "MathOverflow", out |-> 0,
              new_reserve_yes |-> reserve_yes, new_reserve_no |-> reserve_no]
        ELSE [ok |-> TRUE, err |-> "none", out |-> shares_out,
              new_reserve_yes |-> IF side = "Yes" THEN div_new ELSE add_new,
              new_reserve_no |-> IF side = "Yes" THEN add_new ELSE div_new]

calculate_sell_shares(side, shares_in, reserve_yes, reserve_no, fee_bps) ==
    LET k == checked_mul(reserve_yes, reserve_no)
        add_old == IF side = "Yes" THEN reserve_yes ELSE reserve_no
        div_old == IF side = "Yes" THEN reserve_no ELSE reserve_yes
        add_new == checked_add(add_old, shares_in)
        div_new == checked_div(k, add_new)
        sol_before_fee == checked_sub(div_old, div_new)
        fee == fee_amount(sol_before_fee, fee_bps)
        sol_out == checked_sub(sol_before_fee, fee)
    IN  IF k = None \/ add_new = None \/ div_new = None \/ sol_before_fee = None
           \/ fee = None \/ sol_out = None
        THEN [ok |-> FALSE, err |-> "MathOverflow", out |-> 0,
              new_reserve_yes |-> reserve_yes, new_reserve_no |-> reserve_no]
        ELSE [ok |-> TRUE, err |-> "none", out |-> sol_out,
              new_reserve_yes |-> IF side = "Yes" THEN add_new ELSE div_new,
              new_reserve_no |-> IF side = "Yes" THEN div_new ELSE add_new]

----------------------------------------------------------------------------
(* frontend/prediction-market: instruction handlers.  Each takes the       *)
(* accounts w as read at the start of the transaction and yields the       *)
(* result together with the accounts it commits.                           *)

\* Variant of initialize_market: a close time equal to now is accepted.
initialize_market_close_inclusive(w, signer, closes_at, initial_liquidity, fee_bps, t) ==
    LET half_liquidity == checked_div(initial_liquidity, 2)
    IN  IF w.market.exists THEN Err("AccountAlreadyInUse", w)
        ELSE IF ~(closes_at >= t) THEN Err("InvalidCloseTime", w)
        ELSE IF ~(initial_liquidity > 0) THEN Err("InvalidAmount", w)
        ELSE IF ~(fee_bps <= MAX_FEE_BPS) THEN Err("InvalidFee", w)
        ELSE IF half_liquidity = None THEN Err("MathOverflow", w)
        ELSE IF checked_add(w.pool_vault, initial_liquidity) = None
             THEN Err("LamportArithmetic", w)
        ELSE Ok(0, [w EXCEPT
                 !.market = [exists |-> TRUE, authority |-> signer,
                             closes_at |-> closes_at, fee_bps |-> fee_bps,
                             reserve_yes |-> half_liquidity,
                             reserve_no |-> half_liquidity,
                             state |-> "Active", outcome |-> "None"],
                 !.pool_vault = w.pool_vault + initial_liquidity])

\* Variant of initialize_market: the fee is not checked against the maximum.
initialize_market_fee_unchecked(w, signer, closes_at, initial_liquidity, fee_bps, t) ==
    LET half_liquidity == checked_div(initial_liquidity, 2)
    IN  IF w.market.exists THEN Err("AccountAlreadyInUse", w)
        ELSE IF ~(closes_at > t) THEN Err("InvalidCloseTime", w)
        ELSE IF ~(initial_liquidity > 0) THEN Err("InvalidAmount", w)
        ELSE IF half_liquidity = None THEN Err("MathOverflow", w)
        ELSE IF checked_add(w.pool_vault, initial_liquidity) = None
             THEN Err("LamportArithmetic", w)
        ELSE Ok(0, [w EXCEPT
                 !.market = [exists |-> TRUE, authority |-> signer,
                             closes_at |-> closes_at, fee_bps |-> fee_bps,
                             reserve_yes |-> half_liquidity,
                             reserve_no |-> half_liquidity,
                             state |-> "Active", outcome |-> "None"],
                 !.pool_vault = w.pool_vault + initial_liquidity])

\* Variant of initialize_market: only half of initial_liquidity reaches the vault.
initialize_market_deposit_halved(w, signer, closes_at, initial_liquidity, fee_bps, t) ==
    LET half_liquidity == checked_div(initial_liquidity, 2)
    IN  IF w.market.exists THEN Err("AccountAlreadyInUse", w)
        ELSE IF ~(closes_at > t) THEN Err("InvalidCloseTime", w)
        ELSE IF ~(initial_liquidity > 0) THEN Err("InvalidAmount", w)
        ELSE IF ~(fee_bps <= MAX_FEE_BPS) THEN Err("InvalidFee", w)
        ELSE IF half_liquidity = None THEN Err("MathOverflow", w)
        ELSE IF checked_add(w.pool_vault, initial_liquidity) = None
             THEN Err("LamportArithmetic", w)
        ELSE Ok(0, [w EXCEPT
                 !.market = [exists |-> TRUE, authority |-> signer,
                             closes_at |-> closes_at, fee_bps |-> fee_bps,
                             reserve_yes |-> half_liquidity,
                             reserve_no |-> half_liquidity,
                             state |-> "Active", outcome |-> "None"],
                 !.pool_vault = w.pool_vault + half_liquidity])

initialize_market(w, signer, closes_at, initial_liquidity, fee_bps, t) ==
    LET half_liquidity == checked_div(initial_liquidity, 2)
    IN  IF w.market.exists THEN Err("AccountAlreadyInUse", w)
        ELSE IF ~(closes_at > t) THEN Err("InvalidCloseTime", w)
        ELSE IF ~(initial_liquidity > 0) THEN Err("InvalidAmount", w)
        ELSE IF ~(fee_bps <= MAX_FEE_BPS) THEN Err("InvalidFee", w)
        ELSE IF half_liquidity = None THEN Err("MathOverflow", w)
        ELSE IF checked_add(w.pool_vault, initial_liquidity) = None
             THEN Err("LamportArithmetic", w)
        ELSE Ok(0, [w EXCEPT
                 !.market = [exists |-> TRUE, authority |-> signer,
                             closes_at |-> closes_at, fee_bps |-> fee_bps,
                             reserve_yes |-> half_liquidity,
                             reserve_no |-> half_liquidity,
                             state |-> "Active", outcome |-> "None"],
                 !.pool_vault = w.pool_vault + initial_liquidity])

\* Variant of buy_shares: the new reserves are committed to the wrong fields.
buy_shares_reserves_swapped(w, side, amount) ==
    LET mk == w.market
        c == calculate_buy_shares(side, amount, mk.reserve_yes, mk.reserve_no,
                                  mk.fee_bps)
        supply == IF side = "Yes" THEN w.yes_supply ELSE w.no_supply
    IN  IF ~mk.exists THEN Err("AccountNotInitialized", w)
        ELSE IF mk.state # "Active" THEN Err("MarketNotActive", w)
        ELSE IF ~(amount > 0) THEN Err("InvalidAmount", w)
        ELSE IF ~c.ok THEN Err(c.err, w)
        ELSE IF ~(c.out > 0) THEN Err("InsufficientReserves", w)
        ELSE IF checked_add(w.pool_vault, amount) = None
             THEN Err("LamportArithmetic", w)
        ELSE IF checked_add(supply, c.out) = None THEN Err("TokenError", w)
        ELSE Ok(c.out, [w EXCEPT
                 !.market.reserve_yes = c.new_reserve_no,
                 !.market.reserve_no = c.new_reserve_yes,
                 !.pool_vault = w.pool_vault + amount,
                 !.yes_supply = IF side = "Yes" THEN @ + c.out ELSE @,
                 !.no_supply = IF side = "No" THEN @ + c.out ELSE @])

\* Variant of buy_shares: a buy that yields no shares keeps the payment.
buy_shares_payment_kept_on_error(w, side, amount) ==
    LET mk == w.market
        c == calculate_buy_shares(side, amount, mk.reserve_yes, mk.reserve_no,
                                  mk.fee_bps)
        supply == IF side = "Yes" THEN w.yes_supply ELSE w.no_supply
    IN  IF ~mk.exists THEN Err("AccountNotInitialized", w)
        ELSE IF mk.state # "Active" THEN Err("MarketNotActive", w)
        ELSE IF ~(amount > 0) THEN Err("InvalidAmount", w)
        ELSE IF ~c.ok THEN Err(c.err, w)
        ELSE IF ~(c.out > 0)
             THEN Err("InsufficientReserves",
                      [w EXCEPT !.pool_vault = w.pool_vault + amount])
        ELSE IF checked_add(w.pool_vault, amount) = None
             THEN Err("LamportArithmetic", w)
        ELSE IF checked_add(supply, c.out) = None THEN Err("TokenError", w)
        ELSE Ok(c.out, [w EXCEPT
                 !.market.reserve_yes = c.new_reserve_yes,
                 !.market.reserve_no = c.new_reserve_no,
                 !.pool_vault = w.pool_vault + amount,
                 !.yes_supply = IF side = "Yes" THEN @ + c.out ELSE @,
                 !.no_supply = IF side = "No" THEN @ + c.out ELSE @])

\* Variant of buy_shares: the check shares_out > 0 is missing.
buy_shares_zero_output_allowed(w, side, amount) ==
    LET mk == w.market
        c == calculate_buy_shares(side, amount, mk.reserve_yes, mk.reserve_no,
                                  mk.fee_bps)
        supply == IF side = "Yes" THEN w.yes_supply ELSE w.no_supply
    IN  IF ~mk.exists THEN Err("AccountNotInitialized", w)
        ELSE IF mk.state # "Active" THEN Err("MarketNotActive", w)
        ELSE IF ~(amount > 0) THEN Err("InvalidAmount", w)
        ELSE IF ~c.ok THEN Err(c.err, w)
        ELSE IF checked_add(w.pool_vault, amount) = None
             THEN Err("LamportArithmetic", w)
        ELSE IF checked_add(supply, c.out) = None THEN Err("TokenError", w)
        ELSE Ok(c.out, [w EXCEPT
                 !.market.reserve_yes = c.new_reserve_yes,
                 !.market.reserve_no = c.new_reserve_no,
                 !.pool_vault = w.pool_vault + amount,
                 !.yes_supply = IF side = "Yes" THEN @ + c.out ELSE @,
                 !.no_supply = IF side = "No" THEN @ + c.out ELSE @])

\* Variant of buy_shares: the check amount > 0 is missing.
buy_shares_amount_unchecked(w, side, amount) ==
    LET mk == w.market
        c == calculate_buy_shares(side, amount, mk.reserve_yes, mk.reserve_no,
                                  mk.fee_bps)
        supply == IF side = "Yes" THEN w.yes_supply ELSE w.no_supply
    IN  IF ~mk.exists THEN Err("AccountNotInitialized", w)
        ELSE IF mk.state # "Active" THEN Err("MarketNotActive", w)
        ELSE IF ~c.ok THEN Err(c.err, w)
        ELSE IF ~(c.out > 0) THEN Err("InsufficientReserves", w)
        ELSE IF checked_add(w.pool_vault, amount) = None
             THEN Err("LamportArithmetic", w)
        ELSE IF checked_add(supply, c.out) = None THEN Err("TokenError", w)
        ELSE Ok(c.out, [w EXCEPT
                 !.market.reserve_yes = c.new_reserve_yes,
                 !.market.reserve_no = c.new_reserve_no,
                 !.pool_vault = w.pool_vault + amount,
                 !.yes_supply = IF side = "Yes" THEN @ + c.out ELSE @,
                 !.no_supply = IF side = "No" THEN @ + c.out ELSE @])

\* Variant of buy_shares: the vault is credited with the amount after fee.
buy_shares_vault_receives_net(w, side, amount) ==
    LET mk == w.market
        c == calculate_buy_shares(side, amount, mk.reserve_yes, mk.reserve_no,
                                  mk.fee_bps)
        supply == IF side = "Yes" THEN w.yes_supply ELSE w.no_supply
    IN  IF ~mk.exists THEN Err("AccountNotInitialized", w)
        ELSE IF mk.state # "Active" THEN Err("MarketNotActive", w)
        ELSE IF ~(amount > 0) THEN Err("InvalidAmount", w)
        ELSE IF ~c.ok THEN Err(c.err, w)
        ELSE IF ~(c.out > 0) THEN Err("InsufficientReserves", w)
        ELSE IF checked_add(w.pool_vault, amount) = None
             THEN Err("LamportArithmetic", w)
        ELSE IF checked_add(supply, c.out) = None THEN Err("TokenError", w)
        ELSE Ok(c.out, [w EXCEPT
                 !.market.reserve_yes = c.new_reserve_yes,
                 !.market.reserve_no = c.new_reserve_no,
                 !.pool_vault = w.pool_vault + amount
                                - fee_amount(amount, mk.fee_bps),
                 !.yes_supply = IF side = "Yes" THEN @ + c.out ELSE @,
                 !.no_supply = IF side = "No" THEN @ + c.out ELSE @])

buy_shares(w, side, amount) ==
    LET mk == w.market
        c == calculate_buy_shares(side, amount, mk.reserve_yes, mk.reserve_no,
                                  mk.fee_bps)
        supply == IF side = "Yes" THEN w.yes_supply ELSE w.no_supply
    IN  IF ~mk.exists THEN Err("AccountNotInitialized", w)
        ELSE IF mk.state # "Active" THEN Err("MarketNotActive", w)
        ELSE IF ~(amount > 0) THEN Err("InvalidAmount", w)
        ELSE IF ~c.ok THEN Err(c.err, w)
        ELSE IF ~(c.out > 0) THEN Err("InsufficientReserves", w)
        ELSE IF checked_add(w.pool_vault, amount) = None
             THEN Err("LamportArithmetic", w)
        ELSE IF checked_add(supply, c.out) = None THEN Err("TokenError", w)
        ELSE Ok(c.out, [w EXCEPT
                 !.market.reserve_yes = c.new_reserve_yes,
                 !.market.reserve_no = c.new_reserve_no,
                 !.pool_vault = w.pool_vault + amount,
                 !.yes_supply = IF side = "Yes" THEN @ + c.out ELSE @,
                 !.no_supply = IF side = "No" THEN @ + c.out ELSE @])

\* Variant of sell_shares: the check of the market state is missing.
sell_shares_state_unchecked(w, side, shares) ==
    LET mk == w.market
        c == calculate_sell_shares(side, shares, mk.reserve_yes, mk.reserve_no,
                                   mk.fee_bps)
    IN  IF ~mk.exists THEN Err("AccountNotInitialized", w)
        ELSE IF ~(shares > 0) THEN Err("InvalidAmount", w)
        ELSE IF ~c.ok THEN Err(c.err, w)
        ELSE IF ~(c.out > 0) THEN Err("InsufficientReserves", w)
        ELSE IF checked_sub(Held(w, side), shares) = None
             THEN Err("TokenError", w)
        ELSE IF checked_sub(w.pool_vault, c.out) = None
             THEN Err("LamportArithmetic", w)
        ELSE Ok(c.out, [w EXCEPT
                 !.market.reserve_yes = c.new_reserve_yes,
                 !.market.reserve_no = c.new_reserve_no,
                 !.pool_vault = w.pool_vault - c.out,
                 !.yes_supply = IF side = "Yes" THEN @ - shares ELSE @,
                 !.no_supply = IF side = "No" THEN @ - shares ELSE @])

\* Variant of sell_shares: the vault is left as it was when shares are sold.
sell_shares_vault_not_debited(w, side, shares) ==
    LET mk == w.market
        c == calculate_sell_shares(side, shares, mk.reserve_yes, mk.reserve_no,
                                   mk.fee_bps)
    IN  IF ~mk.exists THEN Err("AccountNotInitialized", w)
        ELSE IF mk.state # "Active" THEN Err("MarketNotActive", w)
        ELSE IF ~(shares > 0) THEN Err("InvalidAmount", w)
        ELSE IF ~c.ok THEN Err(c.err, w)
        ELSE IF ~(c.out > 0) THEN Err("InsufficientReserves", w)
        ELSE IF checked_sub(Held(w, side), shares) = None
             THEN Err("TokenError", w)
        ELSE IF checked_sub(w.pool_vault, c.out) = None
             THEN Err("LamportArithmetic", w)
        ELSE Ok(c.out, [w EXCEPT
                 !.market.reserve_yes = c.new_reserve_yes,
                 !.market.reserve_no = c.new_reserve_no,
                 !.pool_vault = w.pool_vault,
                 !.yes_supply = IF side = "Yes" THEN @ - shares ELSE @,
                 !.no_supply = IF side = "No" THEN @ - shares ELSE @])

sell_shares(w, side, shares) ==
    LET mk == w.market
        c == calculate_sell_shares(side, shares, mk.reserve_yes, mk.reserve_no,
                                   mk.fee_bps)
    IN  IF ~mk.exists THEN Err("AccountNotInitialized", w)
        ELSE IF mk.state # "Active" THEN Err("MarketNotActive", w)
        ELSE IF ~(shares > 0) THEN Err("InvalidAmount", w)
        ELSE IF ~c.ok THEN Err(c.err, w)
        ELSE IF ~(c.out > 0) THEN Err("InsufficientReserves", w)
        ELSE IF checked_sub(Held(w, side), shares) = None
             THEN Err("TokenError", w)
        ELSE IF checked_sub(w.pool_vault, c.out) = None
             THEN Err("LamportArithmetic", w)
        ELSE Ok(c.out, [w EXCEPT
                 !.market.reserve_yes = c.new_reserve_yes,
                 !.market.reserve_no = c.new_reserve_no,
                 !.pool_vault = w.pool_vault - c.out,
                 !.yes_supply = IF side = "Yes" THEN @ - shares ELSE @,
                 !.no_supply = IF side = "No" THEN @ - shares ELSE @])

\* Variant of resolve_market: a market that is already resolved is accepted.
resolve_market_state_unchecked(w, signer, outcome, t) ==
    LET mk == w.market
    IN  IF ~mk.exists THEN Err("AccountNotInitialized", w)
        ELSE IF t < mk.closes_at /\ mk.authority # signer
             THEN Err("UnauthorizedResolution", w)
        ELSE Ok(0, [w EXCEPT !.market.state = "Resolved",
                             !.market.outcome = outcome])

\* Variant of resolve_market: the state is flipped, the outcome is not stored.
resolve_market_outcome_not_recorded(w, signer, outcome, t) ==
    LET mk == w.market
    IN  IF ~mk.exists THEN Err("AccountNotInitialized", w)
        ELSE IF mk.state # "Active" THEN Err("MarketNotActive", w)
        ELSE IF t < mk.closes_at /\ mk.authority # signer
             THEN Err("UnauthorizedResolution", w)
        ELSE Ok(0, [w EXCEPT !.market.state = "Resolved"])

\* Variant of resolve_market: resolving also empties the reserves.
resolve_market_reserves_cleared(w, signer, outcome, t) ==
    LET mk == w.market
    IN  IF ~mk.exists THEN Err("AccountNotInitialized", w)
        ELSE IF mk.state # "Active" THEN Err("MarketNotActive", w)
        ELSE IF t < mk.closes_at /\ mk.authority # signer
             THEN Err("UnauthorizedResolution", w)
        ELSE Ok(0, [w EXCEPT !.market.state = "Resolved",
                             !.market.outcome = outcome,
                             !.market.reserve_yes = 0,
                             !.market.reserve_no = 0])

\* Variant of resolve_market: the creator's privilege lasts through close time.
resolve_market_close_exclusive(w, signer, outcome, t) ==
    LET mk == w.market
    IN  IF ~mk.exists THEN Err("AccountNotInitialized", w)
        ELSE IF mk.state # "Active" THEN Err("MarketNotActive", w)
        ELSE IF t <= mk.closes_at /\ mk.authority # signer
             THEN Err("UnauthorizedResolution", w)
        ELSE Ok(0, [w EXCEPT !.market.state = "Resolved",
                             !.market.outcome = outcome])

resolve_market(w, signer, outcome, t) ==
    LET mk == w.market
    IN  IF ~mk.exists THEN Err("AccountNotInitialized", w)
        ELSE IF mk.state # "Active" THEN Err("MarketNotActive", w)
        ELSE IF t < mk.closes_at /\ mk.authority # signer
             THEN Err("UnauthorizedResolution", w)
        ELSE Ok(0, [w EXCEPT !.market.state = "Resolved",
                             !.market.outcome = outcome])

----------------------------------------------------------------------------
(* prediction_market: instruction handlers.                                *)

\* a * b on u64 without a check: the build either aborts on overflow
\* (overflow-checks on) or wraps around; None stands for the abort.
unchecked_mul(a, b, wraps) ==
    IF checked_mul(a, b) # None THEN a * b
    ELSE IF wraps THEN ((a % (U64_MAX + 1)) * b) % (U64_MAX + 1) ELSE None

pm_initialize_market(w, signer, closes_at, initial_liquidity, fee_bps, t, wraps) ==
    LET deposit == unchecked_mul(initial_liquidity, 2, wraps)
    IN  IF w.market.exists THEN Err("AccountAlreadyInUse", w)
        ELSE IF ~(closes_at > t) THEN Err("InvalidCloseTime", w)
        ELSE IF ~(fee_bps <= MAX_FEE_BPS) THEN Err("InvalidFee", w)
        ELSE IF ~(initial_liquidity > 0) THEN Err("InvalidAmount", w)
        ELSE IF checked_add(w.yes_supply, initial_liquidity) = None
                \/ checked_add(w.no_supply, initial_liquidity) = None
             THEN Err("TokenError", w)
        ELSE IF deposit = None THEN Err("ArithmeticPanic", w)
        ELSE IF checked_add(w.pool_vault, deposit) = None
             THEN Err("LamportArithmetic", w)
        ELSE Ok(0, [w EXCEPT
                 !.market = [exists |-> TRUE, authority |-> signer,
                             closes_at |-> closes_at, fee_bps |-> fee_bps,
                             reserve_yes |-> initial_liquidity,
                             reserve_no |-> initial_liquidity,
                             state |-> "Active", outcome |-> "None"],
                 !.yes_supply = @ + initial_liquidity,
                 !.no_supply = @ + initial_liquidity,
                 !.pool_yes = @ + initial_liquidity,
                 !.pool_no = @ + initial_liquidity,
                 !.pool_vault = @ + deposit])

pm_buy_shares(w, side, amount) ==
    LET mk == w.market
        fee == fee_amount(amount, mk.fee_bps)
        amount_after_fee == checked_sub(amount, fee)
        r_side == IF side = "Yes" THEN mk.reserve_yes ELSE mk.reserve_no
        r_other == IF side = "Yes" THEN mk.reserve_no ELSE mk.reserve_yes
        numerator == checked_mul(amount_after_fee, r_side)
        denominator == checked_add(r_other, amount_after_fee)
        shares == checked_div(numerator, denominator)
        new_side == checked_add(r_side, amount_after_fee)
        new_other == checked_sub(r_other, shares)
        supply == IF side = "Yes" THEN w.yes_supply ELSE w.no_supply
    IN  IF ~mk.exists THEN Err("AccountNotInitialized", w)
        ELSE IF mk.state # "Active" THEN Err("MarketNotActive", w)
        ELSE IF ~(amount > 0) THEN Err("InvalidAmount", w)
        ELSE IF fee = None \/ amount_after_fee = None \/ numerator = None
                \/ denominator = None \/ shares = None
             THEN Err("MathOverflow", w)
        ELSE IF ~(shares > 0) THEN Err("InvalidAmount", w)
        ELSE IF new_side = None THEN Err("MathOverflow", w)
        ELSE IF new_other = None THEN Err("InsufficientReserves", w)
        ELSE IF checked_add(w.pool_vault, amount) = None
             THEN Err("LamportArithmetic", w)
        ELSE IF checked_add(supply, shares) = None THEN Err("TokenError", w)
        ELSE Ok(shares, [w EXCEPT
                 !.market.reserve_yes = IF side = "Yes" THEN new_side ELSE new_other,
                 !.market.reserve_no = IF side = "Yes" THEN new_other ELSE new_side,
                 !.pool_vault = @ + amount,
                 !.yes_supply = IF side = "Yes" THEN @ + shares ELSE @,
                 !.no_supply = IF side = "No" THEN @ + shares ELSE @])

pm_sell_shares(w, side, shares) ==
    LET mk == w.market
        r_side == IF side = "Yes" THEN mk.reserve_yes ELSE mk.reserve_no
        r_other == IF side = "Yes" THEN mk.reserve_no ELSE mk.reserve_yes
        numerator == checked_mul(shares, r_other)
        denominator == checked_add(r_side, shares)
        sol_out == checked_div(numerator, denominator)
        fee == fee_amount(sol_out, mk.fee_bps)
        sol_out_after_fee == checked_sub(sol_out, fee)
        new_side == checked_sub(r_side, shares)
        new_other == checked_sub(r_other, sol_out_after_fee)
    IN  IF ~mk.exists THEN Err("AccountNotInitialized", w)
        ELSE IF mk.state # "Active" THEN Err("MarketNotActive", w)
        ELSE IF ~(shares > 0) THEN Err("InvalidAmount", w)
        ELSE IF numerator = None \/ denominator = None \/ sol_out = None
                \/ fee = None \/ sol_out_after_fee = None
             THEN Err("MathOverflow", w)
        ELSE IF ~(sol_out_after_fee > 0) THEN Err("InvalidAmount", w)
        ELSE IF new_side = None \/ new_other = None
             THEN Err("InsufficientReserves", w)
        ELSE IF checked_sub(Held(w, side), shares) = None
             THEN Err("TokenError", w)
        ELSE IF checked_sub(w.pool_vault, sol_out_after_fee) = None
             THEN Err("LamportArithmetic", w)
        ELSE Ok(sol_out_after_fee, [w EXCEPT
                 !.market.reserve_yes = IF side = "Yes" THEN new_side ELSE new_other,
                 !.market.reserve_no = IF side = "Yes" THEN new_other ELSE new_side,
                 !.pool_vault = @ - sol_out_after_fee,
                 !.yes_supply = IF side = "Yes" THEN @ - shares ELSE @,
                 !.no_supply = IF side = "No" THEN @ - shares ELSE @])

pm_resolve_market(w, signer, outcome) ==
    LET mk == w.market
    IN  IF ~mk.exists THEN Err("AccountNotInitialized", w)
        ELSE IF ~(signer = mk.authority) THEN Err("UnauthorizedResolution", w)
        ELSE IF mk.state # "Active" THEN Err("MarketNotActive", w)
        ELSE IF mk.outcome # "None" THEN Err("MarketAlreadyResolved", w)
        ELSE Ok(0, [w EXCEPT !.market.outcome = outcome,
                             !.market.state = "Resolved"])

----------------------------------------------------------------------------
(* prediction: instruction handlers of the collateral-token market.        *)

pr_initialize_market(w, signer, end_time, t) ==
    IF w.tmarket.exists THEN Err("AccountAlreadyInUse", w)
    ELSE IF ~(end_time > t) THEN Err("InvalidEndTime", w)
    ELSE Ok(0, [w EXCEPT
             !.tmarket = [exists |-> TRUE, authority |-> signer,
                          end_time |-> end_time, is_resolved |-> FALSE,
                          winning_outcome |-> "None",
                          total_yes_supply |-> 0, total_no_supply |-> 0]])

\* The mint accounts a caller can pass to an instruction.  The account
\* structs only require a mint of the token program: the market's YES mint,
\* its NO mint, or a mint of the caller's own making (with the market as
\* mint authority where the market signs), of which the caller holds as many
\* tokens as they like.
Mints == {"Yes", "No", "Foreign"}

\* buy_tokens mints from the mint account passed in the slot of the outcome
\* (yes_mint for Yes, no_mint for No); mint is the mint the caller passed
\* there.  The total of the outcome is raised whatever the mint.
buy_tokens(w, amount, outcome, t, mint) ==
    LET mk == w.tmarket
        supply == IF mint = "Yes" THEN w.yes_supply
                  ELSE IF mint = "No" THEN w.no_supply ELSE 0
    IN  IF ~mk.exists THEN Err("AccountNotInitialized", w)
        ELSE IF mk.is_resolved THEN Err("MarketResolved", w)
        ELSE IF ~(t < mk.end_time) THEN Err("MarketEnded", w)
        ELSE IF ~(amount > 0) THEN Err("InvalidAmount", w)
        ELSE IF checked_add(w.pool_vault, amount) = None
                \/ checked_add(supply, amount) = None
             THEN Err("TokenError", w)
        ELSE Ok(0, [w EXCEPT
                 !.pool_vault = @ + amount,
                 !.yes_supply = IF mint = "Yes" THEN @ + amount ELSE @,
                 !.no_supply = IF mint = "No" THEN @ + amount ELSE @,
                 !.tmarket.total_yes_supply =
                     IF outcome = "Yes" THEN (@ + amount) % (U64_MAX + 1) ELSE @,
                 !.tmarket.total_no_supply =
                     IF outcome = "No" THEN (@ + amount) % (U64_MAX + 1) ELSE @])

\* sell_tokens burns from the mint account passed in the slot of the outcome.
\* The total of the outcome is lowered with the plain -= operator: below zero
\* it wraps in a build without overflow checks (wraps) and panics in one with.
sell_tokens(w, amount, outcome, t, mint, wraps) ==
    LET mk == w.tmarket
        total == IF outcome = "Yes" THEN mk.total_yes_supply
                 ELSE mk.total_no_supply
    IN  IF ~mk.exists THEN Err("AccountNotInitialized", w)
        ELSE IF mk.is_resolved THEN Err("MarketResolved", w)
        ELSE IF ~(t < mk.end_time) THEN Err("MarketEnded", w)
        ELSE IF ~(amount > 0) THEN Err("InvalidAmount", w)
        ELSE IF mint # "Foreign" /\ checked_sub(Held(w, mint), amount) = None
             THEN Err("TokenError", w)
        ELSE IF total < amount /\ ~wraps THEN Err("Panic", w)
        ELSE IF checked_sub(w.pool_vault, amount) = None
             THEN Err("TokenError", w)
        ELSE Ok(0, [w EXCEPT
                 !.pool_vault = @ - amount,
                 !.yes_supply = IF mint = "Yes" THEN @ - amount ELSE @,
                 !.no_supply = IF mint = "No" THEN @ - amount ELSE @,
                 !.tmarket.total_yes_supply =
                     IF outcome = "Yes" THEN (@ - amount) % (U64_MAX + 1) ELSE @,
                 !.tmarket.total_no_supply =
                     IF outcome = "No" THEN (@ - amount) % (U64_MAX + 1) ELSE @])

\* Variant of resolve_market: the end time is not compared with the clock.
pr_resolve_market_time_unchecked(w, signer, winning_outcome, t) ==
    LET mk == w.tmarket
    IN  IF ~mk.exists THEN Err("AccountNotInitialized", w)
        ELSE IF mk.is_resolved THEN Err("MarketAlreadyResolved", w)
        ELSE IF ~(signer = mk.authority) THEN Err("Unauthorized", w)
        ELSE Ok(0, [w EXCEPT !.tmarket.is_resolved = TRUE,
                             !.tmarket.winning_outcome = winning_outcome])

pr_resolve_market(w, signer, winning_outcome, t) ==
    LET mk == w.tmarket
    IN  IF ~mk.exists THEN Err("AccountNotInitialized", w)
        ELSE IF mk.is_resolved THEN Err("MarketAlreadyResolved", w)
        ELSE IF ~(t >= mk.end_time) THEN Err("MarketNotEnded", w)
        ELSE IF ~(signer = mk.authority) THEN Err("Unauthorized", w)
        ELSE Ok(0, [w EXCEPT !.tmarket.is_resolved = TRUE,
                             !.tmarket.winning_outcome = winning_outcome])

\* claim_winnings burns from the mint account passed in the slot of the
\* winning outcome (yes_mint when Yes won, no_mint when No won); mint is the
\* mint the caller passed there.
claim_winnings(w, amount, mint) ==
    LET mk == w.tmarket
    IN  IF ~mk.exists THEN Err("AccountNotInitialized", w)
        ELSE IF ~mk.is_resolved THEN Err("MarketNotResolved", w)
        ELSE IF ~(amount > 0) THEN Err("InvalidAmount", w)
        ELSE IF (mint # "Foreign" /\ checked_sub(Held(w, mint), amount) = None)
                \/ checked_sub(w.pool_vault, amount) = None
             THEN Err("TokenError", w)
        ELSE Ok(0, [w EXCEPT
                 !.pool_vault = @ - amount,
                 !.yes_supply = IF mint = "Yes" THEN @ - amount ELSE @,
                 !.no_supply = IF mint = "No" THEN @ - amount ELSE @])

----------------------------------------------------------------------------
(* The order of the steps inside buy_shares and sell_shares.  A step is a  *)
(* check that can fail or a write to a field of the market account; an     *)
(* assignment of a checked result (x = x.checked_add(a).ok_or(e)?) is the  *)
(* check followed by the write.                                            *)

Check(ok, err) == [kind |-> "check", ok |-> ok, err |-> err]
Write(field) == [kind |-> "write", ok |-> TRUE, err |-> field]

\* The steps that run: all of them, or those up to the first failing check.
Executed(steps) ==
    LET bad == {i \in 1..Len(steps) : ~steps[i].ok}
    IN  IF bad = {} THEN steps
        ELSE SubSeq(steps, 1, CHOOSE i \in bad : \A j \in bad : i <= j)

Failed(tr) == ~tr[Len(tr)].ok

WritesBeforeFailure(tr) ==
    Failed(tr) /\ \E i \in 1..Len(tr) : tr[i].kind = "write"

buy_shares_steps(w, side, amount) ==
    LET mk == w.market
        c == calculate_buy_shares(side, amount, mk.reserve_yes, mk.reserve_no,
                                  mk.fee_bps)
        supply == IF side = "Yes" THEN w.yes_supply ELSE w.no_supply
    IN  << Check(mk.exists, "AccountNotInitialized"),
           Check(mk.state = "Active", "MarketNotActive"),
           Check(amount > 0, "InvalidAmount"),
           Check(c.ok, c.err),
           Check(c.out > 0, "InsufficientReserves"),
           Check(checked_add(w.pool_vault, amount) # None, "LamportArithmetic"),
           Check(checked_add(supply, c.out) # None, "TokenError"),
           Write("reserve_yes"),
           Write("reserve_no") >>

sell_shares_steps(w, side, shares) ==
    LET mk == w.market
        c == calculate_sell_shares(side, shares, mk.reserve_yes, mk.reserve_no,
                                   mk.fee_bps)
    IN  << Check(mk.exists, "AccountNotInitialized"),
           Check(mk.state = "Active", "MarketNotActive"),
           Check(shares > 0, "InvalidAmount"),
           Check(c.ok, c.err),
           Check(c.out > 0, "InsufficientReserves"),
           Check(checked_sub(Held(w, side), shares) # None, "TokenError"),
           Check(checked_sub(w.pool_vault, c.out) # None, "LamportArithmetic"),
           Write("reserve_yes"),
           Write("reserve_no") >>

pm_buy_shares_steps(w, side, amount) ==
    LET mk == w.market
        fee == fee_amount(amount, mk.fee_bps)
        amount_after_fee == checked_sub(amount, fee)
        r_side == IF side = "Yes" THEN mk.reserve_yes ELSE mk.reserve_no
        r_other == IF side = "Yes" THEN mk.reserve_no ELSE mk.reserve_yes
        shares == checked_div(checked_mul(amount_after_fee, r_side),
                              checked_add(r_other, amount_after_fee))
        supply == IF side = "Yes" THEN w.yes_supply ELSE w.no_supply
    IN  << Check(mk.exists, "AccountNotInitialized"),
           Check(mk.state = "Active", "MarketNotActive"),
           Check(amount > 0, "InvalidAmount"),
           Check(shares # None, "MathOverflow"),
           Check(shares > 0, "InvalidAmount"),
           Check(checked_add(r_side, amount_after_fee) # None, "MathOverflow"),
           Write(IF side = "Yes" THEN "reserve_yes" ELSE "reserve_no"),
           Check(checked_sub(r_other, shares) # None, "InsufficientReserves"),
           Write(IF side = "Yes" THEN "reserve_no" ELSE "reserve_yes"),
           Check(checked_add(w.pool_vault, amount) # None, "LamportArithmetic"),
           Check(checked_add(supply, shares) # None, "TokenError") >>

pm_sell_shares_steps(w, side, shares) ==
    LET mk == w.market
        r_side == IF side = "Yes" THEN mk.reserve_yes ELSE mk.reserve_no
        r_other == IF side = "Yes" THEN mk.reserve_no ELSE mk.reserve_yes
        sol_out == checked_div(checked_mul(shares, r_other),
                               checked_add(r_side, shares))
        sol_out_after_fee == checked_sub(sol_out, fee_amount(sol_out, mk.fee_bps))
    IN  << Check(mk.exists, "AccountNotInitialized"),
           Check(mk.state = "Active", "MarketNotActive"),
           Check(shares > 0, "InvalidAmount"),
           Check(sol_out_after_fee # None, "MathOverflow"),
           Check(sol_out_after_fee > 0, "InvalidAmount"),
           Check(checked_sub(r_side, shares) # None, "InsufficientReserves"),
           Write(IF side = "Yes" THEN "reserve_yes" ELSE "reserve_no"),
           Check(checked_sub(r_other, sol_out_after_fee) # None,
                 "InsufficientReserves"),
           Write(IF side = "Yes" THEN "reserve_no" ELSE "reserve_yes"),
           Check(checked_sub(Held(w, side), shares) # None, "TokenError"),
           Check(checked_sub(w.pool_vault, sol_out_after_fee) # None,
                 "LamportArithmetic") >>

----------------------------------------------------------------------------
(* Market accounts by address: which address initialize_market accepts.    *)

MAX_STATEMENT_LEN == 256

Agents == {"agentA", "agentB"}
\* A statement is its text and the length of the text in bytes.
Statements == {[text |-> "s1", len |-> 2], [text |-> "s2", len |-> 2],
               [text |-> "long", len |-> 257]}
\* Arguments <<closes_at, initial_liquidity, fee_bps>> of a creation at a
\* chosen address: accepted at now = 0, and rejected for its close time.
InitArgsAt == {<<1, 1000, 100>>, <<0, 1000, 100>>}

\* hash(statement.as_bytes()): sha256, taken to be free of collisions.
Hash(statement) == <<"sha256", statement.text>>

\* Pubkey::find_program_address(&[MARKET_SEED, agent, statement_hash]),
\* taken to be free of collisions.
MarketPDA(agent, statement_hash) == <<"pda", "market", agent, statement_hash>>

\* Addresses of fresh keypairs, and the program-derived addresses of the
\* statements that pass the length check.
Keypairs == {<<"keypair", 1>>, <<"keypair", 2>>}
Addresses == Keypairs \cup {MarketPDA(a, Hash(st)) :
                               a \in Agents,
                               st \in {x \in Statements : x.len <= MAX_STATEMENT_LEN}}

NoAccount == [exists |-> FALSE]

NoCallAt == [addr |-> <<>>, signer |-> "none", agent |-> "none",
             statement |-> "none", ok |-> FALSE, err |-> "none",
             pre |-> [a \in Addresses |-> NoAccount]]

\* frontend initialize_market on the market account at addr.
initialize_market_at(accts, addr, signer, agent, statement, closes_at, initial_liquidity, fee_bps, t) ==
    LET r == initialize_market(NoWorld, signer, closes_at, initial_liquidity,
                               fee_bps, t)
        expected_market == MarketPDA(agent, Hash(statement))
    IN  IF accts[addr].exists THEN Err("AccountAlreadyInUse", accts)
        ELSE IF ~(statement.len <= MAX_STATEMENT_LEN)
             THEN Err("StatementTooLong", accts)
        ELSE IF r.err \in {"InvalidCloseTime", "InvalidAmount", "InvalidFee"}
             THEN Err(r.err, accts)
        ELSE IF addr # expected_market THEN Err("InvalidOutcome", accts)
        ELSE IF ~r.ok THEN Err(r.err, accts)
        ELSE Ok(0, [accts EXCEPT ![addr] =
                     [exists |-> TRUE, market |-> r.w.market, agent |-> agent,
                      statement |-> statement.text, market_id |-> addr]])

\* prediction_market initialize_market on the market account at addr.
pm_initialize_market_at(accts, addr, signer, agent, statement, closes_at, initial_liquidity, fee_bps, t, wraps) ==
    LET r == pm_initialize_market(NoWorld, signer, closes_at,
                                  initial_liquidity, fee_bps, t, wraps)
    IN  IF accts[addr].exists THEN Err("AccountAlreadyInUse", accts)
        ELSE IF ~(statement.len <= MAX_STATEMENT_LEN)
             THEN Err("StatementTooLong", accts)
        ELSE IF ~r.ok THEN Err(r.err, accts)
        ELSE Ok(0, [accts EXCEPT ![addr] =
                     [exists |-> TRUE, market |-> r.w.market, agent |-> agent,
                      statement |-> statement.text,
                      market_id |-> Hash(statement)]])

----------------------------------------------------------------------------
(* stake/agent_registry: the registry, one agent with its bond vault, and  *)
(* the proof requests made of the agent, one per market id.                *)

MAX_PROOF_URI == 256

\* Signers: the registry authority, the agent's authority (the payer of the
\* bond), the agent's designated wallet, and an unrelated account.
StakeKeys == {"admin", "bob", "wallet", "mallory"}
MarketIds == {"m1", "m2"}
Deadlines == {0, 1}
\* Arguments of initialize_registry, <<bond_lamports, slash_penalty_lamports>>.
RegistryArgs == {<<10, 3>>, <<10, 20>>}
ProofUriLens == {10, 257}
\* Rent-exempt minimum the payer deposits when the 8-byte vault is created.
VaultRent == 1

Min(a, b) == IF a <= b THEN a ELSE b

\* An account that was not created yet holds no data.
NoRequest == [exists |-> FALSE]

NoStake == [registry |-> [exists |-> FALSE],
            agent |-> [exists |-> FALSE],
            requests |-> [m \in MarketIds |-> NoRequest],
            vault |-> 0,
            received |-> [k \in StakeKeys |-> 0]]

\* The address of the agent account, derived from [AGENT_SEED, agent_wallet].
AgentKey(agent) == <<"pda", "agent", agent.agent_wallet>>

NoCallS == [op |-> "none", signer |-> "none", request |-> "none",
            arg |-> 0, now |-> 0, ok |-> FALSE, err |-> "none", pre |-> NoStake]

initialize_registry(st, signer, bond_lamports, slash_penalty_lamports) ==
    IF st.registry.exists THEN Err("AccountAlreadyInUse", st)
    ELSE Ok(0, [st EXCEPT
             !.registry = [exists |-> TRUE, authority |-> signer,
                           bond_lamports |-> bond_lamports,
                           slash_penalty_lamports |->
                               Min(slash_penalty_lamports, bond_lamports)]])

\* metadata_ok is the result of validate_metadata(name, url, tags).
register_agent(st, payer, agent_wallet, metadata_ok) ==
    IF ~st.registry.exists THEN Err("AccountNotInitialized", st)
    ELSE IF st.agent.exists THEN Err("AccountAlreadyInUse", st)
    ELSE IF ~metadata_ok THEN Err("NameTooLong", st)
    ELSE Ok(0, [st EXCEPT
             !.vault = VaultRent + st.registry.bond_lamports,
             !.agent = [exists |-> TRUE, authority |-> payer,
                        agent_wallet |-> agent_wallet,
                        bond_lamports |-> st.registry.bond_lamports,
                        request_count |-> 0, pending_request |-> "None"]])

update_metadata(st, signer, metadata_ok) ==
    IF ~st.agent.exists THEN Err("AccountNotInitialized", st)
    ELSE IF ~metadata_ok THEN Err("NameTooLong", st)
    ELSE IF st.agent.authority # signer THEN Err("Unauthorized", st)
    ELSE Ok(0, st)

request_proof(st, requester, market_id, deadline_ts, t) ==
    LET request_count == checked_add(st.agent.request_count, 1)
    IN  IF ~st.agent.exists \/ ~st.registry.exists
        THEN Err("AccountNotInitialized", st)
        ELSE IF st.requests[market_id].exists THEN Err("AccountAlreadyInUse", st)
        ELSE IF ~(deadline_ts >= t) THEN Err("DeadlineInPast", st)
        ELSE IF request_count = None THEN Err("Overflow", st)
        ELSE Ok(0, [st EXCEPT
                 !.requests[market_id] =
                     [exists |-> TRUE, agent |-> AgentKey(st.agent),
                      requester |-> requester,
                      deadline_ts |-> deadline_ts, fulfilled |-> FALSE,
                      slashable |-> TRUE, proof_uri |-> 0],
                 !.agent.request_count = request_count,
                 !.agent.pending_request = market_id])

\* request is the proof_request account passed, named by the market id of
\* its seeds; market_id is the instruction argument.
submit_proof(st, signer, request, market_id, proof_uri_len) ==
    LET rq == st.requests[request]
    IN  IF ~st.agent.exists \/ ~rq.exists THEN Err("AccountNotInitialized", st)
        ELSE IF ~(proof_uri_len <= MAX_PROOF_URI) THEN Err("ProofUriTooLong", st)
        ELSE IF rq.fulfilled THEN Err("RequestAlreadyFulfilled", st)
        ELSE IF rq.agent # AgentKey(st.agent)
             THEN Err("InvalidRequest", st)
        ELSE IF request # market_id THEN Err("InvalidRequest", st)
        ELSE IF st.agent.authority # signer THEN Err("Unauthorized", st)
        ELSE Ok(0, [st EXCEPT
                 !.requests[request].proof_uri = proof_uri_len,
                 !.requests[request].fulfilled = TRUE,
                 !.requests[request].slashable = FALSE])

\* Variant of slash_agent: the request is not marked after the penalty is paid.
slash_agent_request_not_marked(st, signer, request, t) ==
    LET rq == st.requests[request]
        penalty == st.registry.slash_penalty_lamports
    IN  IF ~st.registry.exists \/ ~st.agent.exists \/ ~rq.exists
        THEN Err("AccountNotInitialized", st)
        ELSE IF ~rq.slashable THEN Err("NotSlashable", st)
        ELSE IF rq.fulfilled THEN Err("RequestAlreadyFulfilled", st)
        ELSE IF ~(t > rq.deadline_ts) THEN Err("DeadlineNotReached", st)
        ELSE IF checked_sub(st.vault, penalty) = None
             THEN Err("InsufficientFunds", st)
        ELSE Ok(0, [st EXCEPT
                 !.vault = @ - penalty,
                 !.received[signer] = @ + penalty])

slash_agent(st, signer, request, t) ==
    LET rq == st.requests[request]
        penalty == st.registry.slash_penalty_lamports
    IN  IF ~st.registry.exists \/ ~st.agent.exists \/ ~rq.exists
        THEN Err("AccountNotInitialized", st)
        ELSE IF ~rq.slashable THEN Err("NotSlashable", st)
        ELSE IF rq.fulfilled THEN Err("RequestAlreadyFulfilled", st)
        ELSE IF ~(t > rq.deadline_ts) THEN Err("DeadlineNotReached", st)
        ELSE IF checked_sub(st.vault, penalty) = None
             THEN Err("InsufficientFunds", st)
        ELSE Ok(0, [st EXCEPT
                 !.vault = @ - penalty,
                 !.received[signer] = @ + penalty,
                 !.requests[request].slashable = FALSE,
                 !.requests[request].fulfilled = TRUE])

withdraw_bond(st, signer) ==
    LET lamports == st.vault
    IN  IF ~st.agent.exists THEN Err("AccountNotInitialized", st)
        ELSE IF st.agent.authority # signer THEN Err("Unauthorized", st)
        ELSE IF st.agent.pending_request # "None"
             THEN Err("ActiveRequestPresent", st)
        ELSE IF ~(lamports >= st.agent.bond_lamports)
             THEN Err("InsufficientVaultBalance", st)
        ELSE Ok(0, [st EXCEPT !.vault = 0,
                              !.received[signer] = @ + lamports])

----------------------------------------------------------------------------
(* The state machine.                                                      *)

TradeOps == {"buy_shares", "sell_shares", "buy_tokens", "sell_tokens"}

\* The instructions that move collateral; their successes are counted.
CountedOps == TradeOps \cup {"claim_winnings"}

\* Commit the result r of instruction op and record the call.
Commit(op, signer, side, amount, fee_bps, closes_at, r) ==
    /\ (r.ok /\ op \in CountedOps) => trades < MaxTrades
    /\ market' = r.w.market
    /\ tmarket' = r.w.tmarket
    /\ pool_vault' = r.w.pool_vault
    /\ yes_supply' = r.w.yes_supply
    /\ no_supply' = r.w.no_supply
    /\ pool_yes' = r.w.pool_yes
    /\ pool_no' = r.w.pool_no
    /\ trades' = IF r.ok /\ op \in CountedOps THEN trades + 1 ELSE trades
    /\ last' = [op |-> op, signer |-> signer, side |-> side, amount |-> amount,
                fee_bps |-> fee_bps, closes_at |-> closes_at, now |-> now,
                ok |-> r.ok, err |-> r.err, ret |-> r.ret, pre |-> World]
    /\ prev' = IF last.ok /\ last.op \in TradeOps
               THEN [op |-> last.op, side |-> last.side,
                     amount |-> last.amount, ret |-> last.ret]
               ELSE NoTrade
    /\ UNCHANGED <<now, accounts, lastAt, stake, lastS>>

\* What a holder may offer for sale: the listed amounts or all shares held.
SellAmounts(side) == Amounts \cup {Held(World, side)}

Tick ==
    /\ now < MaxNow
    /\ now' = now + 1
    /\ UNCHANGED <<market, tmarket, pool_vault, yes_supply, no_supply,
                   pool_yes, pool_no, trades, last, prev, accounts, lastAt,
                   stake, lastS>>

InitializeMarket ==
    \E signer \in Creators, a \in InitArgs :
        Commit("initialize_market", signer, "None", a[2], a[3], a[1],
               initialize_market(World, signer, a[1], a[2], a[3], now))

BuyShares ==
    \E side \in Sides, amount \in Amounts :
        Commit("buy_shares", "trader", side, amount, 0, 0,
               buy_shares(World, side, amount))

SellShares ==
    \E side \in Sides : \E shares \in SellAmounts(side) :
        Commit("sell_shares", "trader", side, shares, 0, 0,
               sell_shares(World, side, shares))

ResolveMarket ==
    \E signer \in Keys, outcome \in Sides :
        Commit("resolve_market", signer, outcome, 0, 0, 0,
               resolve_market(World, signer, outcome, now))

Init ==
    /\ market = NoMarket
    /\ tmarket = NoTMarket
    /\ pool_vault = 0
    /\ yes_supply = 0
    /\ no_supply = 0
    /\ pool_yes = 0
    /\ pool_no = 0
    /\ now = 0
    /\ trades = 0
    /\ last = NoCall
    /\ prev = NoTrade
    /\ accounts = [a \in Addresses |-> NoAccount]
    /\ lastAt = NoCallAt
    /\ stake = NoStake
    /\ lastS = NoCallS

Next == Tick \/ InitializeMarket \/ BuyShares \/ SellShares \/ ResolveMarket

Spec == Init /\ [][Next]_vars

----------------------------------------------------------------------------
(* prediction_market as a state machine.                                   *)

PMInitializeMarket ==
    \E signer \in Creators, a \in PMInitArgs, wraps \in BOOLEAN :
        Commit("initialize_market", signer, "None", a[2], a[3], a[1],
               pm_initialize_market(World, signer, a[1], a[2], a[3], now, wraps))

PMBuyShares ==
    \E side \in Sides, amount \in Amounts :
        Commit("buy_shares", "trader", side, amount, 0, 0,
               pm_buy_shares(World, side, amount))

PMSellShares ==
    \E side \in Sides : \E shares \in SellAmounts(side) :
        Commit("sell_shares", "trader", side, shares, 0, 0,
               pm_sell_shares(World, side, shares))

PMResolveMarket ==
    \E signer \in Keys, outcome \in Sides :
        Commit("resolve_market", signer, outcome, 0, 0, 0,
               pm_resolve_market(World, signer, outcome))

NextPM == Tick \/ PMInitializeMarket \/ PMBuyShares \/ PMSellShares
          \/ PMResolveMarket

SpecPM == Init /\ [][NextPM]_vars

----------------------------------------------------------------------------
(* prediction as a state machine.                                          *)

EndTimes == {0, 1}

PRInitializeMarket ==
    \E signer \in Creators, e \in EndTimes :
        Commit("initialize_market", signer, "None", 0, 0, e,
               pr_initialize_market(World, signer, e, now))

\* Token amounts offered to the collateral-token market.
TokenAmounts == {0, 100}

\* The mint passed is recorded in the signer field of the call.
BuyTokens ==
    \E outcome \in Sides, amount \in TokenAmounts, mint \in Mints :
        Commit("buy_tokens", mint, outcome, amount, 0, 0,
               buy_tokens(World, amount, outcome, now, mint))

SellTokens ==
    \E outcome \in Sides, mint \in Mints, wraps \in BOOLEAN :
        \E amount \in TokenAmounts \cup {Held(World, outcome)} :
            Commit("sell_tokens", mint, outcome, amount, 0, 0,
                   sell_tokens(World, amount, outcome, now, mint, wraps))

PRResolveMarket ==
    \E signer \in Keys, outcome \in Sides :
        Commit("resolve_market", signer, outcome, 0, 0, 0,
               pr_resolve_market(World, signer, outcome, now))

ClaimWinnings ==
    \E amount \in TokenAmounts \cup {Held(World, "Yes"), Held(World, "No")},
       mint \in Mints :
        Commit("claim_winnings", "trader", mint, amount, 0, 0,
               claim_winnings(World, amount, mint))

NextPR == Tick \/ PRInitializeMarket \/ BuyTokens \/ SellTokens
          \/ PRResolveMarket \/ ClaimWinnings

SpecPR == Init /\ [][NextPR]_vars

----------------------------------------------------------------------------
(* Creation of several markets by one program.                             *)

NumMarkets == Cardinality({a \in Addresses : accounts[a].exists})

\* Commit the result r of an initialize_market at addr and record the call.
CommitAt(addr, signer, agent, statement, r) ==
    /\ r.ok => NumMarkets < MaxMarkets
    /\ accounts' = r.w
    /\ lastAt' = [addr |-> addr, signer |-> signer, agent |-> agent,
                  statement |-> statement.text, ok |-> r.ok, err |-> r.err,
                  pre |-> accounts]
    /\ UNCHANGED <<market, tmarket, pool_vault, yes_supply, no_supply,
                   pool_yes, pool_no, now, trades, last, prev, stake, lastS>>

InitializeMarketAt ==
    \E addr \in Addresses, signer \in Keys, agent \in Agents,
       statement \in Statements, a \in InitArgsAt :
        CommitAt(addr, signer, agent, statement,
                 initialize_market_at(accounts, addr, signer, agent, statement,
                                      a[1], a[2], a[3], now))

\* The market account of prediction_market is created without seeds, so it
\* signs its own creation: its address is that of a keypair.
PMInitializeMarketAt ==
    \E addr \in Keypairs, signer \in Keys, agent \in {"agentA"},
       statement \in Statements, a \in InitArgsAt, wraps \in BOOLEAN :
        CommitAt(addr, signer, agent, statement,
                 pm_initialize_market_at(accounts, addr, signer, agent,
                                         statement, a[1], a[2], a[3], now,
                                         wraps))

NextAccounts == Tick \/ InitializeMarketAt

SpecAccounts == Init /\ [][NextAccounts]_vars

NextPMAccounts == Tick \/ PMInitializeMarketAt

SpecPMAccounts == Init /\ [][NextPMAccounts]_vars

----------------------------------------------------------------------------
(* stake/agent_registry as a state machine.                                *)

\* Commit the result r of an agent-registry instruction and record the call.
CommitS(op, signer, request, arg, r) ==
    /\ stake' = r.w
    /\ lastS' = [op |-> op, signer |-> signer, request |-> request, arg |-> arg,
                 now |-> now, ok |-> r.ok, err |-> r.err, pre |-> stake]
    /\ UNCHANGED <<market, tmarket, pool_vault, yes_supply, no_supply,
                   pool_yes, pool_no, now, trades, last, prev, accounts, lastAt>>

InitializeRegistry ==
    \E a \in RegistryArgs :
        CommitS("initialize_registry", "admin", "none", a[2],
                initialize_registry(stake, "admin", a[1], a[2]))

RegisterAgent ==
    \E metadata_ok \in BOOLEAN :
        CommitS("register_agent", "bob", "none", 0,
                register_agent(stake, "bob", "wallet", metadata_ok))

UpdateMetadata ==
    \E signer \in {"bob", "mallory"}, metadata_ok \in BOOLEAN :
        CommitS("update_metadata", signer, "none", 0,
                update_metadata(stake, signer, metadata_ok))

RequestProof ==
    \E market_id \in MarketIds, deadline_ts \in Deadlines :
        CommitS("request_proof", "mallory", market_id, deadline_ts,
                request_proof(stake, "mallory", market_id, deadline_ts, now))

SubmitProof ==
    \E signer \in {"bob", "wallet", "mallory"}, request \in MarketIds, market_id \in MarketIds,
       proof_uri_len \in ProofUriLens :
        CommitS("submit_proof", signer, request, proof_uri_len,
                submit_proof(stake, signer, request, market_id, proof_uri_len))

SlashAgent ==
    \E signer \in {"admin", "bob", "mallory"}, request \in MarketIds :
        CommitS("slash_agent", signer, request, 0,
                slash_agent(stake, signer, request, now))

WithdrawBond ==
    \E signer \in {"bob", "wallet", "mallory"} :
        CommitS("withdraw_bond", signer, "none", 0,
                withdraw_bond(stake, signer))

NextStake == Tick \/ InitializeRegistry \/ RegisterAgent \/ UpdateMetadata
             \/ RequestProof \/ SubmitProof \/ SlashAgent \/ WithdrawBond

SpecStake == Init /\ [][NextStake]_vars

----------------------------------------------------------------------------
(* Properties.  `last` is the most recent instruction, last.pre the        *)
(* accounts it started from, and the variables are the accounts it left.   *)

Pre == last.pre.market

Product(mk) == mk.reserve_yes * mk.reserve_no

IsTrade == last.op \in {"buy_shares", "sell_shares"}

\* C1: while the market is Active both reserves are strictly positive.
C1_ActiveReservesPositive ==
    market.state = "Active" => market.reserve_yes > 0 /\ market.reserve_no > 0

\* C2: a successful buy or sell never lowers reserve_yes * reserve_no, and
\* raises it strictly when fee_bps > 0 and the traded amount is > 0.
C2_ProductNeverDecreases ==
    (IsTrade /\ last.ok) =>
        /\ Product(market) >= Product(Pre)
        /\ (Pre.fee_bps > 0 /\ last.amount > 0) => Product(market) > Product(Pre)

\* C3: a buy of x followed at once by the sale of the shares it returned
\* pays out at most x.
C3_RoundTripBound ==
    (/\ prev.op = "buy_shares"
     /\ last.op = "sell_shares" /\ last.ok
     /\ last.side = prev.side /\ last.amount = prev.ret)
        => last.ret <= prev.amount

C5_MonotonicPricing ==
    (/\ prev.op = "buy_shares"
     /\ last.op = "buy_shares" /\ last.ok
     /\ last.side = prev.side /\ last.amount = prev.amount)
        => last.ret <= prev.ret

C5_Witness ==
    /\ prev.op = "buy_shares" /\ last.op = "buy_shares" /\ last.ok
    /\ last.side = prev.side /\ last.amount = prev.amount
    /\ last.ret < prev.ret

\* canResolve(now, close_time, caller, creator)
canResolve(t, close_time, caller, creator) ==
    t >= close_time \/ caller = creator

\* C6: on an Active market resolve_market succeeds exactly when
\* now >= close_time or the caller is the creator; otherwise it fails with
\* the unauthorized error and changes nothing.
C6_ResolveAuthority ==
    (last.op = "resolve_market" /\ Pre.state = "Active") =>
        LET can == canResolve(last.now, Pre.closes_at, last.signer, Pre.authority)
        IN  /\ last.ok <=> can
            /\ ~can => last.err = "UnauthorizedResolution" /\ World = last.pre
            /\ can => market.state = "Resolved" /\ market.outcome = last.side

C6_Witness ==
    /\ last.op = "resolve_market" /\ Pre.state = "Active"
    /\ last.signer # Pre.authority /\ last.now < Pre.closes_at
    /\ ~last.ok

\* C7: in every program, once now >= close_time a resolve_market call by a
\* caller other than the creator succeeds on an unresolved market.
C7_PermissionlessAfterClose ==
    /\ (/\ last.op = "resolve_market"
        /\ Pre.state = "Active" /\ Pre.outcome = "None"
        /\ last.now >= Pre.closes_at /\ last.signer # Pre.authority)
        => last.ok
    /\ (/\ last.op = "resolve_market"
        /\ last.pre.tmarket.exists /\ ~last.pre.tmarket.is_resolved
        /\ last.now >= last.pre.tmarket.end_time
        /\ last.signer # last.pre.tmarket.authority)
        => last.ok

\* C8: buy_shares and sell_shares on a market that is not Active fail with
\* MarketNotActive and change nothing.
C8_TradeNeedsActive ==
    /\ (IsTrade /\ Pre.exists /\ Pre.state # "Active") =>
           ~last.ok /\ last.err = "MarketNotActive" /\ World = last.pre
    /\ market.exists =>
           \A st \in {"Resolved", "Frozen"}, side \in Sides :
               LET w == [World EXCEPT !.market.state = st]
               IN  /\ \A amount \in Amounts :
                          buy_shares(w, side, amount) = Err("MarketNotActive", w)
                   /\ \A shares \in SellAmounts(side) :
                          sell_shares(w, side, shares) = Err("MarketNotActive", w)

C8_Witness ==
    /\ last.op = "sell_shares" /\ Pre.state = "Resolved"
    /\ last.amount > 0 /\ last.amount = Held(World, last.side)
    /\ last.err = "MarketNotActive"

\* C9: once resolved, every further resolve_market fails with
\* MarketAlreadyResolved and the outcome stays.
C9_SecondResolveAlreadyResolved ==
    (last.op = "resolve_market" /\ Pre.state = "Resolved") =>
        /\ ~last.ok /\ last.err = "MarketAlreadyResolved"
        /\ market.outcome = Pre.outcome

\* C10: no buy or sell succeeds once now >= close_time.
C10_NoTradeAfterClose ==
    /\ (IsTrade /\ Pre.exists /\ last.now >= Pre.closes_at) => ~last.ok
    /\ (/\ last.op \in {"buy_tokens", "sell_tokens"} /\ last.pre.tmarket.exists
        /\ last.now >= last.pre.tmarket.end_time) => ~last.ok

\* C11: the state only moves from Active to a terminal state, and a Resolved
\* market is inert: no later instruction changes its state, reserves,
\* outcome, fee_bps or close time.
C11_ResolvedIsInert ==
    /\ (Pre.exists /\ market.state # Pre.state) =>
           Pre.state = "Active" /\ market.state \in {"Resolved", "Frozen"}
    /\ Pre.state = "Resolved" => market = Pre

C11_Witness ==
    /\ last.op = "resolve_market" /\ Pre.state = "Resolved"
    /\ last.signer = Pre.authority /\ last.side # Pre.outcome
    /\ trades > 0 /\ ~last.ok
    /\ market.state = "Resolved"

\* C12: the outcome is set exactly when the market is Resolved; in the
\* collateral-token program winning_outcome is set exactly when is_resolved.
C12_OutcomeIffResolved ==
    /\ market.outcome # "None" <=> market.state = "Resolved"
    /\ tmarket.winning_outcome # "None" <=> tmarket.is_resolved

C12_Witness ==
    /\ last.op = "resolve_market" /\ last.ok /\ Pre.outcome = "None"
    /\ market.state = "Resolved" /\ market.outcome = "No"

\* C13: a successful resolve_market changes the state and the outcome and
\* nothing else: reserves, fee_bps, close time, vault and supplies stay.
C13_ResolveFrame ==
    (last.op = "resolve_market" /\ last.ok) =>
        World = [last.pre EXCEPT !.market.state = "Resolved",
                                 !.market.outcome = last.side]

C13_Witness ==
    /\ last.op = "resolve_market" /\ last.ok
    /\ market.reserve_yes > 0 /\ market.reserve_no > 0
    /\ pool_vault > 0 /\ yes_supply > 0 /\ trades > 0

C15_EqualSplit ==
    (last.op = "initialize_market" /\ last.ok) =>
        /\ market.reserve_yes = last.amount \div 2
        /\ market.reserve_no = last.amount \div 2
        /\ pool_vault = last.pre.pool_vault + last.amount

\* C16: the parameters fixed at creation never change: fee_bps <= 10000 in
\* every state, initialize_market writes its arguments and its signer, and no
\* later instruction changes close time, fee_bps or the creator.
C16_CreationParametersFixed ==
    /\ market.exists => market.fee_bps <= 10000
    /\ (last.op = "initialize_market" /\ last.ok) =>
           /\ market.closes_at = last.closes_at
           /\ market.fee_bps = last.fee_bps
           /\ market.authority = last.signer
    /\ Pre.exists =>
           /\ market.exists
           /\ market.closes_at = Pre.closes_at
           /\ market.fee_bps = Pre.fee_bps
           /\ market.authority = Pre.authority

C16_Witness ==
    /\ last.op = "resolve_market" /\ last.ok /\ last.signer # Pre.authority
    /\ trades > 0 /\ prev.op = "none"
    /\ market.fee_bps = 100 /\ market.closes_at = 1
    /\ market.authority = "alice"

C18_NoWrap ==
    /\ (last.op = "initialize_market" /\ last.ok) =>
           pool_vault = last.pre.pool_vault + 2 * last.amount
    /\ (last.op \in {"initialize_market", "buy_shares", "sell_shares"}
          /\ ~last.ok) => World = last.pre

\* C19: a successful buy returns at least 1 share and a successful sell at
\* least 1 lamport; when the computed output is 0 the call fails with the
\* insufficient-output error (InsufficientReserves) and changes nothing.
C19_OutputAtLeastOne ==
    /\ (IsTrade /\ last.ok) => last.ret >= 1
    /\ (IsTrade /\ Pre.state = "Active" /\ last.amount > 0) =>
           LET c == IF last.op = "buy_shares"
                    THEN calculate_buy_shares(last.side, last.amount,
                             Pre.reserve_yes, Pre.reserve_no, Pre.fee_bps)
                    ELSE calculate_sell_shares(last.side, last.amount,
                             Pre.reserve_yes, Pre.reserve_no, Pre.fee_bps)
           IN  (c.ok /\ c.out = 0) =>
                   /\ ~last.ok /\ last.err = "InsufficientReserves"
                   /\ World = last.pre

C19_Witness ==
    /\ last.op = "sell_shares" /\ Pre.state = "Active" /\ last.amount > 0
    /\ last.amount = Held(last.pre, last.side)
    /\ ~last.ok /\ last.err = "InsufficientReserves"

\* C20: a buy or sell of amount 0 on an Active market fails with
\* InvalidAmount and changes neither reserves, vault nor share supply.
C20_ZeroAmountRejected ==
    /\ (IsTrade /\ Pre.state = "Active" /\ last.amount = 0) =>
           ~last.ok /\ last.err = "InvalidAmount" /\ World = last.pre
    /\ (/\ last.op \in {"buy_tokens", "sell_tokens"} /\ last.amount = 0
        /\ last.pre.tmarket.exists /\ ~last.pre.tmarket.is_resolved
        /\ last.now < last.pre.tmarket.end_time) =>
           ~last.ok /\ last.err = "InvalidAmount" /\ World = last.pre

C20_Witness ==
    /\ last.op = "sell_shares" /\ Pre.state = "Active" /\ last.amount = 0
    /\ last.err = "InvalidAmount"
    /\ trades > 0 /\ pool_vault > 0 /\ last.now >= Pre.closes_at

\* C21: a successful buy_shares(side, amount) raises the vault by exactly
\* amount and the reserve being added to by exactly
\* amount - floor(amount * fee_bps / 10000), which is amount when fee_bps = 0.
C21_BuyDeposit ==
    (last.op = "buy_shares" /\ last.ok) =>
        LET net == last.amount - (last.amount * Pre.fee_bps) \div 10000
            added == IF last.side = "Yes"
                     THEN market.reserve_no - Pre.reserve_no
                     ELSE market.reserve_yes - Pre.reserve_yes
        IN  /\ pool_vault = last.pre.pool_vault + last.amount
            /\ added = net
            /\ Pre.fee_bps = 0 => added = last.amount

C21_Witness ==
    /\ last.op = "buy_shares" /\ last.ok /\ last.amount = 100
    /\ Pre.fee_bps = 100 /\ last.side = "No"
    /\ market.reserve_yes = Pre.reserve_yes + 99
    /\ pool_vault = last.pre.pool_vault + 100

\* C22: in both AMM programs a successful buy of Yes adds the amount after
\* fee to reserve_no, sets reserve_yes to floor(k / new reserve_no) and
\* returns the decrease of reserve_yes; a buy of No is the mirror.
C22_BuyCurve ==
    (last.op = "buy_shares" /\ last.ok) =>
        LET net == last.amount - (last.amount * Pre.fee_bps) \div 10000
            k == Pre.reserve_yes * Pre.reserve_no
            add_old == IF last.side = "Yes" THEN Pre.reserve_no
                       ELSE Pre.reserve_yes
            div_old == IF last.side = "Yes" THEN Pre.reserve_yes
                       ELSE Pre.reserve_no
            add_new == IF last.side = "Yes" THEN market.reserve_no
                       ELSE market.reserve_yes
            div_new == IF last.side = "Yes" THEN market.reserve_yes
                       ELSE market.reserve_no
        IN  /\ add_new = add_old + net
            /\ div_new = k \div add_new
            /\ last.ret = div_old - div_new

\* C23: in both AMM programs a successful sell of shares_in raises the
\* reserve of the sold side by shares_in, sets the other reserve to
\* floor(k / new reserve of the sold side) and pays the decrease d of the
\* other reserve less floor(d * fee_bps / 10000).
C23_SellCurve ==
    (last.op = "sell_shares" /\ last.ok) =>
        LET k == Pre.reserve_yes * Pre.reserve_no
            add_old == IF last.side = "Yes" THEN Pre.reserve_yes
                       ELSE Pre.reserve_no
            div_old == IF last.side = "Yes" THEN Pre.reserve_no
                       ELSE Pre.reserve_yes
            add_new == IF last.side = "Yes" THEN market.reserve_yes
                       ELSE market.reserve_no
            div_new == IF last.side = "Yes" THEN market.reserve_no
                       ELSE market.reserve_yes
            d == div_old - div_new
        IN  /\ add_new = add_old + last.amount
            /\ div_new = k \div add_new
            /\ last.ret = d - (d * Pre.fee_bps) \div 10000

MarketKey(accts, a) == <<accts[a].market.authority, accts[a].statement>>

Existing(accts) == {a \in Addresses : accts[a].exists}

\* C25: the market identifier is a function of (creator, statement).  An
\* initialize_market by a creator who already has a market with the same
\* statement is rejected and changes nothing; no two markets share creator
\* and statement; markets that differ in creator or statement have distinct
\* identifiers.
C25_IdentifierFromCreatorAndStatement ==
    /\ (\E a \in Existing(lastAt.pre) :
            MarketKey(lastAt.pre, a) = <<lastAt.signer, lastAt.statement>>)
           => ~lastAt.ok /\ accounts = lastAt.pre
    /\ \A a, b \in Existing(accounts) :
           a # b => /\ MarketKey(accounts, a) # MarketKey(accounts, b)
                    /\ accounts[a].market_id # accounts[b].market_id

\* C26: the supply of YES (NO) shares changes only through buys and sells of
\* that side: a successful buy mints the shares it returns, a successful sell
\* burns the shares sold, and every other call, creating and resolving a
\* market included, leaves both supplies as they were.
C26_SupplyOnlyByTrades ==
    LET yes_delta == yes_supply - last.pre.yes_supply
        no_delta == no_supply - last.pre.no_supply
        mine == IF last.side = "Yes" THEN yes_delta ELSE no_delta
        other == IF last.side = "Yes" THEN no_delta ELSE yes_delta
    IN  /\ (last.op = "buy_shares" /\ last.ok) =>
               mine = last.ret /\ other = 0
        /\ (last.op = "sell_shares" /\ last.ok) =>
               mine = 0 - last.amount /\ other = 0
        /\ ~(IsTrade /\ last.ok) => yes_delta = 0 /\ no_delta = 0

\* C27: after resolution with outcome o a claim_winnings(amount) by a holder
\* of at least amount shares of side o succeeds, every successful claim
\* burns exactly amount shares of side o and pays exactly amount, shares of
\* the other side are never redeemed, and the vault always covers the
\* outstanding shares of side o.
C27_WinnersRedeemOneToOne ==
    LET o == last.pre.tmarket.winning_outcome
    IN  /\ (last.op = "claim_winnings" /\ last.ok) =>
               /\ Held(World, o) = Held(last.pre, o) - last.amount
               /\ pool_vault = last.pre.pool_vault - last.amount
               /\ \A side \in Sides \ {o} :
                      Held(World, side) = Held(last.pre, side)
        /\ (/\ last.op = "claim_winnings" /\ last.pre.tmarket.is_resolved
            /\ last.side = o /\ last.amount > 0
            /\ Held(last.pre, o) >= last.amount) => last.ok
        /\ tmarket.is_resolved =>
               pool_vault >= Held(World, tmarket.winning_outcome)

\* The steps the call recorded in `last` ran, in each of the two AMM programs.
LastSteps ==
    IF last.op = "buy_shares"
    THEN buy_shares_steps(last.pre, last.side, last.amount)
    ELSE sell_shares_steps(last.pre, last.side, last.amount)

LastStepsPM ==
    IF last.op = "buy_shares"
    THEN pm_buy_shares_steps(last.pre, last.side, last.amount)
    ELSE pm_sell_shares_steps(last.pre, last.side, last.amount)

\* The steps of the frontend program agree with its handlers on the result.
StepsAgree ==
    IsTrade => /\ Failed(Executed(LastSteps)) <=> ~last.ok
               /\ ~last.ok =>
                      Executed(LastSteps)[Len(Executed(LastSteps))].err = last.err

\* The steps of prediction_market agree with its handlers on the result.
StepsAgreePM ==
    IsTrade => /\ Failed(Executed(LastStepsPM)) <=> ~last.ok
               /\ ~last.ok =>
                      Executed(LastStepsPM)[Len(Executed(LastStepsPM))].err
                          = last.err

\* The frontend program runs every check before its first write.
ChecksBeforeWrites == IsTrade => ~WritesBeforeFailure(Executed(LastSteps))

\* C28: in buy_shares and sell_shares of both AMM programs every check that
\* can fail runs before the first write to the market: no call writes a
\* reserve and then fails.
C28_ChecksBeforeWritesPM ==
    IsTrade => ~WritesBeforeFailure(Executed(LastStepsPM))

\* Amounts a trade may be called with, up to the largest word.
ProbeAmounts == Amounts \cup {2, U64_MAX}

\* C29 as stated: whenever reserve_yes * reserve_no exceeds the largest word,
\* every buy_shares and sell_shares fails with MathOverflow, whatever the
\* side and the amount.
C29_AlwaysMathOverflow ==
    (IsTrade /\ Pre.exists /\ Product(Pre) > U64_MAX) =>
        ~last.ok /\ last.err = "MathOverflow"

\* C29 amended: whenever reserve_yes * reserve_no exceeds the largest word,
\* every buy_shares and sell_shares fails and changes nothing; on an Active
\* market the error is MathOverflow for every side and every amount > 0 and
\* InvalidAmount for amount 0.  A market created with reserves of such a
\* product is Active and never trades.
C29_OverflowBlocksTrading ==
    /\ (IsTrade /\ Pre.exists /\ Product(Pre) > U64_MAX) =>
           /\ ~last.ok /\ World = last.pre
           /\ Pre.state = "Active" =>
                  last.err = IF last.amount > 0 THEN "MathOverflow"
                             ELSE "InvalidAmount"
    /\ (market.state = "Active" /\ Product(market) > U64_MAX) =>
           \A side \in Sides, amount \in ProbeAmounts \ {0} :
               /\ buy_shares(World, side, amount) = Err("MathOverflow", World)
               /\ sell_shares(World, side, amount) = Err("MathOverflow", World)
    /\ (last.op = "initialize_market" /\ last.ok
          /\ (last.amount \div 2) * (last.amount \div 2) > U64_MAX) =>
           market.state = "Active" /\ Product(market) > U64_MAX

C29_Witness ==
    /\ last.op = "buy_shares" /\ Pre.state = "Active" /\ last.amount = 1
    /\ Product(Pre) > U64_MAX
    /\ ~last.ok /\ last.err = "MathOverflow"

\* C30: in a market created with fee_bps = 10000 no buy_shares and no
\* sell_shares ever succeeds, so its reserves stay at their initial values.
C30_FullFeeBlocksTrading ==
    /\ (IsTrade /\ Pre.exists /\ Pre.fee_bps = 10000) => ~last.ok
    /\ (Pre.exists /\ Pre.fee_bps = 10000) =>
           /\ market.reserve_yes = Pre.reserve_yes
           /\ market.reserve_no = Pre.reserve_no
    /\ (market.exists /\ market.fee_bps = 10000) =>
           \E initial_liquidity \in Liquidities :
               /\ pool_vault = initial_liquidity
               /\ market.reserve_yes = initial_liquidity \div 2
               /\ market.reserve_no = initial_liquidity \div 2
    /\ (market.state = "Active" /\ market.fee_bps = 10000) =>
           \A side \in Sides, amount \in ProbeAmounts :
               /\ ~buy_shares(World, side, amount).ok
               /\ ~sell_shares(World, side, amount).ok
               /\ ~calculate_buy_shares(side, amount, market.reserve_yes,
                         market.reserve_no, market.fee_bps).ok
                   \/ calculate_buy_shares(side, amount, market.reserve_yes,
                         market.reserve_no, market.fee_bps).out = 0
               /\ ~calculate_sell_shares(side, amount, market.reserve_yes,
                         market.reserve_no, market.fee_bps).ok
                   \/ calculate_sell_shares(side, amount, market.reserve_yes,
                         market.reserve_no, market.fee_bps).out = 0

C30_Witness ==
    /\ last.op = "buy_shares" /\ Pre.state = "Active" /\ Pre.fee_bps = 10000
    /\ last.amount = 100 /\ Pre.reserve_yes = 500 /\ Pre.reserve_no = 500
    /\ ~last.ok /\ last.err = "InsufficientReserves"
    /\ market.reserve_yes = 500 /\ market.reserve_no = 500

\* C31: the pool vault is solvent.  The vault holds at least the two reserves
\* plus one lamport per outstanding share, so every sell of shares that were
\* minted by earlier buys and that passes the pricing checks pays out no more
\* than the vault balance: the vault debit of sell_shares never underflows.
C31_VaultSolvent ==
    /\ market.exists =>
           pool_vault >= market.reserve_yes + market.reserve_no
                             + yes_supply + no_supply
    /\ last.op = "sell_shares" => last.err # "LamportArithmetic"
    /\ (last.op = "sell_shares" /\ last.ok) => last.ret <= last.pre.pool_vault
    /\ market.state = "Active" =>
           \A side \in Sides : \A shares \in ProbeAmounts \cup {Held(World, side)} :
               LET c == calculate_sell_shares(side, shares, market.reserve_yes,
                            market.reserve_no, market.fee_bps)
               IN  (shares > 0 /\ shares <= Held(World, side) /\ c.ok /\ c.out > 0)
                       => c.out <= pool_vault

C31_Witness ==
    /\ last.op = "sell_shares" /\ last.ok /\ last.ret > 0
    /\ prev.op = "buy_shares" /\ last.amount = prev.ret
    /\ last.ret <= last.pre.pool_vault
    /\ pool_vault >= market.reserve_yes + market.reserve_no

PreT == last.pre.tmarket

\* C32: the phases of the collateral-token market are strictly ordered.
\* buy_tokens and sell_tokens succeed only while now < end_time and the market
\* is unresolved; resolve_market succeeds only at now >= end_time for the
\* market authority; claim_winnings succeeds only on a resolved market.  A
\* resolved market stays resolved and its end time has passed, so no buy or
\* sell succeeds after a resolution and no claim before one.
C32_PhasesOrdered ==
    /\ (last.op \in {"buy_tokens", "sell_tokens"} /\ last.ok) =>
           /\ PreT.exists /\ ~PreT.is_resolved
           /\ last.now < PreT.end_time
    /\ (last.op = "resolve_market" /\ last.ok) =>
           /\ last.now >= PreT.end_time
           /\ last.signer = PreT.authority
           /\ ~PreT.is_resolved /\ tmarket.is_resolved
    /\ (last.op = "claim_winnings" /\ last.ok) => PreT.is_resolved
    /\ PreT.is_resolved => tmarket.is_resolved
    /\ tmarket.is_resolved => now >= tmarket.end_time
    /\ tmarket.is_resolved =>
           \A outcome \in Sides, amount \in ProbeAmounts, t \in now..MaxNow :
               \A mint \in Mints, wraps \in BOOLEAN :
                   /\ ~buy_tokens(World, amount, outcome, t, mint).ok
                   /\ ~sell_tokens(World, amount, outcome, t, mint, wraps).ok
    /\ ~tmarket.is_resolved =>
           \A amount \in ProbeAmounts, mint \in Mints :
               ~claim_winnings(World, amount, mint).ok

C32_Witness ==
    /\ last.op = "buy_tokens" /\ last.amount = 100
    /\ PreT.is_resolved /\ PreT.total_yes_supply + PreT.total_no_supply > 0
    /\ ~last.ok /\ last.err = "MarketResolved"

\* C33: in the collateral-token market, before resolution, the vault balance
\* equals total_yes_supply + total_no_supply, and the two totals equal the
\* outstanding supplies of the YES and the NO mint.
C33_VaultEqualsSupplies ==
    (tmarket.exists /\ ~tmarket.is_resolved) =>
        /\ pool_vault = tmarket.total_yes_supply + tmarket.total_no_supply
        /\ tmarket.total_yes_supply = yes_supply
        /\ tmarket.total_no_supply = no_supply

\* The request a submit_proof or slash_agent call was about, before and after.
PreRequest == lastS.pre.requests[lastS.request]
PostRequest == stake.requests[lastS.request]

IsSettle == lastS.op \in {"submit_proof", "slash_agent"}

\* C34: for every proof request at most one submit_proof or slash_agent call
\* ever succeeds.  A call succeeds only on a request that is unfulfilled and
\* slashable and leaves it fulfilled and not slashable; a fulfilled request
\* stays fulfilled and rejects every further submit_proof and slash_agent;
\* slashable and fulfilled are never both true.
C34_SettledAtMostOnce ==
    /\ \A m \in MarketIds :
           LET rq == stake.requests[m]
               pre == lastS.pre.requests[m]
           IN  /\ rq.exists => ~(rq.fulfilled /\ rq.slashable)
               /\ rq.exists => (rq.fulfilled \/ rq.slashable)
               /\ pre.exists => rq.exists
               /\ (pre.exists /\ pre.fulfilled) => rq.fulfilled
               /\ (rq.exists /\ rq.fulfilled) =>
                      \A signer \in StakeKeys, t \in now..MaxNow :
                          /\ ~slash_agent(stake, signer, m, t).ok
                          /\ \A market_id \in MarketIds, len \in ProofUriLens :
                                 ~submit_proof(stake, signer, m, market_id, len).ok
    /\ (IsSettle /\ lastS.ok) =>
           /\ PreRequest.exists /\ ~PreRequest.fulfilled /\ PreRequest.slashable
           /\ PostRequest.fulfilled /\ ~PostRequest.slashable
           /\ \A m \in MarketIds \ {lastS.request} :
                  stake.requests[m] = lastS.pre.requests[m]
    /\ (lastS.op = "slash_agent" /\ lastS.ok) =>
           stake.vault = lastS.pre.vault - lastS.pre.registry.slash_penalty_lamports
    /\ (lastS.op = "slash_agent" /\ ~lastS.ok) => stake = lastS.pre

\* A second slash_agent on a request that was slashed before is rejected.
C34_Witness ==
    /\ lastS.op = "slash_agent" /\ ~lastS.ok /\ lastS.err = "NotSlashable"
    /\ PreRequest.fulfilled /\ PreRequest.proof_uri = 0
    /\ lastS.now > PreRequest.deadline_ts
    /\ stake = lastS.pre

\* C35: slash penalties go to the registry authority.  slash_agent succeeds
\* only when the signer, who receives the penalty, is the authority recorded
\* in the registry; signed by any other account it fails and the agent's
\* vault keeps its balance.
C35_PenaltyToAuthority ==
    (lastS.op = "slash_agent" /\ lastS.pre.registry.exists) =>
        /\ lastS.ok => lastS.signer = lastS.pre.registry.authority
        /\ lastS.signer # lastS.pre.registry.authority =>
               /\ ~lastS.ok
               /\ stake.vault = lastS.pre.vault
               /\ stake.received = lastS.pre.received

\* C36: submit_proof on an unfulfilled request succeeds when the signer is the
\* agent's authority or the agent's designated wallet, and fails with
\* Unauthorized, leaving the request unchanged, for every other signer.
C36_AuthorityOrWalletSubmits ==
    \A m \in MarketIds :
        (stake.requests[m].exists /\ ~stake.requests[m].fulfilled) =>
            \A signer \in StakeKeys :
                LET r == submit_proof(stake, signer, m, m, 10)
                IN  IF signer \in {stake.agent.authority, stake.agent.agent_wallet}
                    THEN r.ok /\ r.w.requests[m].fulfilled
                    ELSE ~r.ok /\ r.err = "Unauthorized" /\ r.w = stake

\* C37: deadlines are respected.  request_proof accepts only a deadline in
\* the future (deadline_ts > now); no request is slashed at a time
\* now <= deadline_ts; slash_agent before or at the deadline fails with
\* DeadlineNotReached and leaves the request and the vault unchanged.
C37_DeadlinesRespected ==
    /\ (lastS.op = "request_proof" /\ lastS.ok) => lastS.arg > lastS.now
    /\ (lastS.op = "slash_agent" /\ lastS.ok) =>
           lastS.now > PreRequest.deadline_ts
    /\ (lastS.op = "slash_agent" /\ PreRequest.exists /\ ~PreRequest.fulfilled
          /\ lastS.now <= PreRequest.deadline_ts) =>
           /\ ~lastS.ok /\ lastS.err = "DeadlineNotReached"
           /\ stake = lastS.pre

\* Every request made of the agent has been answered or slashed.
AllSettled ==
    /\ stake.agent.exists
    /\ \E m \in MarketIds : stake.requests[m].exists
    /\ \A m \in MarketIds : stake.requests[m].exists => stake.requests[m].fulfilled

\* C38: an agent can recover its bond once its requests are settled.  When
\* every request of the agent has seen a successful submit_proof or
\* slash_agent, pending_request is None again and withdraw_bond by the
\* agent's authority succeeds.
C38_BondRecoverable ==
    AllSettled =>
        /\ stake.agent.pending_request = "None"
        /\ stake.vault > 0 => withdraw_bond(stake, stake.agent.authority).ok

====
